---- MODULE Spec2Model ----
(***************************************************************************)
(* Model of the eff test scaffolding: the transport chain                  *)
(* retryTransport -> headerTransport -> base transport built by            *)
(* NewGraphQLClient and the container lifecycle StartTwisp / Cleanup       *)
(* (twisp.go), and the scalar codecs (scalars.go).                         *)
(*                                                                         *)
(* Spec          one retryTransport.RoundTrip call through the chain       *)
(* SpecLifecycle StartTwisp calls and Cleanup calls on their containers    *)
(* SpecScalars   UnmarshalJSON and MarshalJSON of a Decimal and of a Date  *)
(* SpecClients   several clients with RoundTrip calls in progress at once  *)
(***************************************************************************)
EXTENDS Integers, Sequences, FiniteSets, TLC

VARIABLES
    t,            \* the retryTransport: maxRetries, baseDelay, headers of its headerTransport
    req,          \* the caller's request: Header, Body, GetBody
    ctx,          \* req.Context(): done, err
    pc,           \* position of RoundTrip
    attempt,      \* loop variable of RoundTrip
    lastErr,      \* local lastErr of RoundTrip
    cloned,       \* the request of the current attempt
    ret,          \* what t.base.RoundTrip returned on the current attempt
    timer,        \* the time.After timer of the current backoff: delay, state
    woken,        \* the case that woke a select parked on its channels
    result,       \* what RoundTrip returned
    log,          \* sends the base transport received and backoff waits begun, in order
    waited,       \* sum of the backoff delays that elapsed
    cancelledAt,  \* the attempt the context was cancelled in, and whether its backoff
                  \* timer was then running
    nextBody,     \* number of body streams GetBody has produced
    world,        \* containers of the container runtime
    calls,        \* StartTwisp calls and what they returned
    tb,           \* the testing.TB handed to Cleanup: lines logged, failed
    scalar,       \* a scalar value (Decimal, Date) and the last UnmarshalJSON and
                  \* MarshalJSON call on it: its bytes, its error
    chains,       \* the transport chains NewGraphQLClient built
    trips,        \* the clients: the headers each was created with and the
                  \* RoundTrip call it has in progress
    received      \* the requests the shared base transport was handed, and by whom

transportVars == <<t, req, ctx, pc, attempt, lastErr, cloned, ret, timer, woken,
                   result, log, waited, cancelledAt, nextBody>>
lifecycleVars == <<world, calls, tb>>
codecVars == <<scalar>>
clientVars == <<chains, trips, received>>
notTransportVars == <<lifecycleVars, codecVars, clientVars>>
notLifecycleVars == <<transportVars, codecVars, clientVars>>
notCodecVars == <<transportVars, lifecycleVars, clientVars>>
notClientVars == <<transportVars, lifecycleVars, codecVars>>
vars == <<t, req, ctx, pc, attempt, lastErr, cloned, ret, timer, woken,
          result, log, waited, cancelledAt, nextBody, world, calls, tb, scalar,
          chains, trips, received>>

----------------------------------------------------------------------------
(* Bounds of the model *)

\* largest maxRetries of the transports built directly (besides the client's 5)
MaxRetries == 2
\* largest baseDelay, in nanoseconds, of the transports built directly
MaxBaseDelay == 1
\* number of StartTwisp calls
MaxStarts == 2
\* number of Cleanup calls on one TwispContainer
MaxCleanups == 2

----------------------------------------------------------------------------
(* time.Duration: a signed 64-bit integer, here its 8 bytes, least significant first *)

DurationBytes == 8

Millisecond == 1000000

ClientMaxRetries == 5

ClientBaseDelayMs == 200

Zeros(n) == [i \in 1..n |-> 0]

Digit(s, i) == IF i >= 1 /\ i <= Len(s) THEN s[i] ELSE 0

\* the n bytes of a natural number below 2^31
ToBytes(x, n) == [i \in 1..n |-> IF i <= 4 THEN (x \div (256 ^ (i - 1))) % 256 ELSE 0]

\* column sums to n bytes, carries moved up
RECURSIVE Carry(_, _, _, _)
Carry(cols, i, c, n) ==
    IF i > n THEN <<>>
    ELSE LET s == Digit(cols, i) + c
         IN  <<s % 256>> \o Carry(cols, i + 1, s \div 256, n)

\* a + b, to n bytes
AddBytes(a, b, n) == Carry([i \in 1..n |-> Digit(a, i) + Digit(b, i)], 1, 0, n)

RECURSIVE Column(_, _, _, _)
Column(a, b, k, i) ==
    IF i > Len(a) THEN 0
    ELSE a[i] * Digit(b, k + 1 - i) + Column(a, b, k, i + 1)

\* the full product of two byte strings
MulBytes(a, b) ==
    LET n == Len(a) + Len(b)
    IN  Carry([k \in 1..n |-> Column(a, b, k, 1)], 1, 0, n)

\* an int32 in place of the int64: the low 4 bytes, sign-extended
Wrap32(s) ==
    [i \in 1..DurationBytes |->
        IF i <= 4 THEN Digit(s, i) ELSE IF Digit(s, 4) >= 128 THEN 255 ELSE 0]

\* a result of Duration arithmetic keeps its low 64 bits
Wrap(s) == [i \in 1..DurationBytes |-> Digit(s, i)]

Duration(x) == ToBytes(x, DurationBytes)

DurationAdd(a, b) == Wrap(AddBytes(a, b, DurationBytes + 1))

DurationMul(a, b) == Wrap(MulBytes(a, b))

\* 1 << k as a Duration: a bit shifted past the top is lost
OneShl(k) == [i \in 1..DurationBytes |-> IF i = (k \div 8) + 1 THEN 2 ^ (k % 8) ELSE 0]

IsNegative(d) == d[DurationBytes] >= 128

IsPositive(d) == ~IsNegative(d) /\ d # Zeros(DurationBytes)

RECURSIVE LessFrom(_, _, _)
LessFrom(a, b, i) ==
    IF i = 0 THEN FALSE
    ELSE IF a[i] # b[i] THEN a[i] < b[i]
    ELSE LessFrom(a, b, i - 1)

\* a < b as signed integers
DurationLess(a, b) ==
    IF IsNegative(a) # IsNegative(b) THEN IsNegative(a)
    ELSE LessFrom(a, b, DurationBytes)

\* a linear schedule in place of the exponential one
BackoffLinear(baseDelay, k) == DurationMul(baseDelay, Duration(k + 1))

\* delay := t.baseDelay * (1 << attempt)
Backoff(baseDelay, k) == DurationMul(baseDelay, OneShl(k))

----------------------------------------------------------------------------
(* http.Header: canonical key -> values.  Keys are strings of characters. *)

Upper(c) == CASE c = "a" -> "A" [] c = "b" -> "B" [] c = "x" -> "X" [] OTHER -> c

Lower(c) == CASE c = "A" -> "a" [] c = "B" -> "b" [] c = "X" -> "x" [] OTHER -> c

\* textproto.CanonicalMIMEHeaderKey: upper case first and after '-', lower case elsewhere
CanonicalKey(k) ==
    [i \in 1..Len(k) |-> IF i = 1 \/ k[i - 1] = "-" THEN Upper(k[i]) ELSE Lower(k[i])]

EmptyHeader == [k \in {} |-> <<>>]

\* Header.Set in place of Header.Add: the value replaces what the key held
HeaderSet(h, key, v) ==
    LET k == CanonicalKey(key)
    IN  [x \in DOMAIN h \cup {k} |-> IF x = k THEN <<v>> ELSE h[x]]

\* req.Header.Add(key, v)
HeaderAdd(h, key, v) ==
    LET k == CanonicalKey(key)
    IN  [x \in DOMAIN h \cup {k} |->
            IF x = k THEN (IF k \in DOMAIN h THEN Append(h[k], v) ELSE <<v>>)
            ELSE h[x]]

\* for _, v := range vals { req.Header.Add(key, v) }
RECURSIVE AddValues(_, _, _)
AddValues(h, key, vals) ==
    IF vals = <<>> THEN h
    ELSE AddValues(HeaderAdd(h, key, Head(vals)), key, Tail(vals))

\* for key, vals := range t.headers { ... }, the map's keys visited in the given order
RECURSIVE AddHeaders(_, _, _)
AddHeaders(h, headers, order) ==
    IF order = <<>> THEN h
    ELSE AddHeaders(AddValues(h, Head(order), headers[Head(order)]), headers, Tail(order))

\* the orders in which a range over a map may visit its keys
KeyOrders(headers) ==
    LET K == DOMAIN headers
    IN  {o \in [1..Cardinality(K) -> K] : \A i, j \in DOMAIN o : i # j => o[i] # o[j]}

xa == <<"x", "-", "a">>
XA == <<"X", "-", "A">>
XB == <<"X", "-", "B">>

\* header sets a client is built with
HeaderSets ==
    { EmptyHeader,
      (xa :> <<"1", "2">>),
      (xa :> <<"1">>) @@ (XB :> <<"3">>),
      (xa :> <<"1">>) @@ (XA :> <<"2">>) }

\* headers a request carries before it is sent
RequestHeaders ==
    { EmptyHeader,
      (XA :> <<"0">>) @@ (XB :> <<"9">>) }

----------------------------------------------------------------------------
(* errors *)

NilErr == [type |-> "nil", op |-> "", errno |-> ""]

ErrDialRefused == [type |-> "OpError", op |-> "dial", errno |-> "ECONNREFUSED"]
ErrReadReset   == [type |-> "OpError", op |-> "read", errno |-> "ECONNRESET"]
ErrDialTimeout == [type |-> "OpError", op |-> "dial", errno |-> "timeout"]
ErrReadTimeout == [type |-> "OpError", op |-> "read", errno |-> "timeout"]
ErrTLS         == [type |-> "tls", op |-> "", errno |-> ""]
ErrGetBody     == [type |-> "getbody", op |-> "", errno |-> ""]
Canceled         == [type |-> "context", op |-> "", errno |-> "canceled"]
DeadlineExceeded == [type |-> "context", op |-> "", errno |-> "deadline exceeded"]

\* errors the base transport returns
TransportErrors == {ErrDialRefused, ErrReadReset, ErrDialTimeout, ErrReadTimeout, ErrTLS}

ContextErrors == {Canceled, DeadlineExceeded}

\* every error retried
IsTransientAlways(err) == TRUE

\* the dial-phase test left out: only the two errnos are retried
IsTransientErrno(err) == err.errno \in {"ECONNREFUSED", "ECONNRESET"}

\* errors.Is(err, ECONNREFUSED) || errors.Is(err, ECONNRESET), or a
\* *net.OpError in the chain whose Op is "dial"
isTransient(err) ==
    \/ err.errno \in {"ECONNREFUSED", "ECONNRESET"}
    \/ err.type = "OpError" /\ err.op = "dial"

----------------------------------------------------------------------------
(* requests, responses, transports *)

NilBody == 0

OriginalBody == 1

NilResp == [status |-> 0, attempt |-> -1]

StatusCodes == {200, 503}

\* ownHeader: the Header map is the request's own, not the map of the request
\* it was made from
NoRequest == [Header |-> EmptyHeader, Body |-> NilBody, ownHeader |-> TRUE]

\* a shallow copy (*cloned = *req): the copy's Header is the caller's map
ShallowCopy(r) == [Header |-> r.Header, Body |-> r.Body, ownHeader |-> FALSE]

\* req.Clone(ctx): the headers are copied into a map of the clone's own, the
\* Body is the same stream
Clone(r) == [Header |-> r.Header, Body |-> r.Body, ownHeader |-> TRUE]

\* requests without a body, with a body that GetBody replays, and with a body
\* that cannot be replayed
Requests ==
    {r \in [Header : RequestHeaders, Body : {NilBody, OriginalBody}, GetBody : BOOLEAN] :
        r.GetBody => r.Body # NilBody}

\* the transport NewGraphQLClient builds
ClientTransports ==
    [maxRetries : {ClientMaxRetries},
     baseDelay : {Duration(ClientBaseDelayMs * Millisecond)},
     headers : HeaderSets]

\* retryTransports built directly, over a headerTransport
DirectTransports ==
    [maxRetries : (-1)..MaxRetries,
     baseDelay : {Duration(d) : d \in 1..MaxBaseDelay},
     headers : HeaderSets]

\* the requests that reach the client's transport: the GraphQL client posts
\* its query from memory, so the request has a Body and a GetBody
ClientRequests == {r \in Requests : r.Body # NilBody /\ r.GetBody}

\* a transport and the request it is given
RoundTrips == (ClientTransports \X ClientRequests) \cup (DirectTransports \X Requests)

NoTimer == [delay |-> Zeros(DurationBytes), state |-> "none"]

NoResult == [resp |-> NilResp, err |-> NilErr]

NotCancelled == [wait |-> FALSE, attempt |-> -1]

----------------------------------------------------------------------------
(* retryTransport.RoundTrip through headerTransport.RoundTrip to the base *)

TransportIdle ==
    /\ ctx = [done |-> FALSE, err |-> NilErr]
    /\ attempt = 0
    /\ lastErr = NilErr
    /\ cloned = NoRequest
    /\ ret = NoResult
    /\ timer = NoTimer
    /\ woken = "none"
    /\ result = NoResult
    /\ log = <<>>
    /\ waited = Zeros(DurationBytes)
    /\ cancelledAt = NotCancelled
    /\ nextBody = OriginalBody

Return(resp, err) ==
    /\ result' = [resp |-> resp, err |-> err]
    /\ pc' = "done"

\* a loop that runs once more: for attempt := 0; attempt <= n; attempt++
InRangeInclusive(a, n) == a <= n

\* for attempt := range n: attempt takes the values 0 .. n-1, none when n <= 0
InRange(a, n) == a < n

\* for attempt := range t.maxRetries: the body of one iteration up to the send
BeginAttempt ==
    /\ pc = "loop"
    /\ InRange(attempt, t.maxRetries)
    /\ IF req.Body # NilBody /\ req.GetBody
       THEN \E ok \in BOOLEAN :
              IF ok
              THEN /\ cloned' = [Clone(req) EXCEPT !.Body = nextBody + 1]
                   /\ nextBody' = nextBody + 1
                   /\ pc' = "send"
                   /\ UNCHANGED result
              ELSE /\ Return(NilResp, ErrGetBody)
                   /\ UNCHANGED <<cloned, nextBody>>
       ELSE /\ cloned' = Clone(req)
            /\ pc' = "send"
            /\ UNCHANGED <<nextBody, result>>
    /\ UNCHANGED <<t, req, ctx, attempt, lastErr, ret, timer, woken, log, waited,
                   cancelledAt>>
    /\ UNCHANGED notTransportVars

\* the range is used up: return nil, lastErr
Exhausted ==
    /\ pc = "loop"
    /\ ~InRange(attempt, t.maxRetries)
    /\ Return(NilResp, lastErr)
    /\ UNCHANGED <<t, req, ctx, attempt, lastErr, cloned, ret, timer, woken, log,
                   waited, cancelledAt, nextBody>>
    /\ UNCHANGED notTransportVars

\* t.base.RoundTrip(cloned): headerTransport adds its headers to the Header
\* map of the request it was given and hands the request to the base
\* transport; a map shared with the caller's request changes for the caller too
HeaderRoundTrip ==
    /\ pc = "send"
    /\ \E order \in KeyOrders(t.headers) :
          LET sent == [cloned EXCEPT !.Header = AddHeaders(cloned.Header, t.headers, order)]
          IN  /\ cloned' = sent
              /\ req' = IF cloned.ownHeader THEN req
                         ELSE [req EXCEPT !.Header = sent.Header]
              /\ log' = Append(log, [op |-> "send", attempt |-> attempt,
                                     Header |-> sent.Header, Body |-> sent.Body,
                                     outcome |-> "pending",
                                     delay |-> Zeros(DurationBytes)])
    /\ pc' = "inflight"
    /\ UNCHANGED <<t, ctx, attempt, lastErr, ret, timer, woken, result, waited,
                   cancelledAt, nextBody>>
    /\ UNCHANGED notTransportVars

\* what the base transport did: connection refused, connection reset and
\* dial-phase failures are the transient failures
Outcome(r) ==
    IF r.err = NilErr THEN "ok"
    ELSE IF r.err \in {ErrDialRefused, ErrReadReset, ErrDialTimeout} THEN "transient"
    ELSE "fatal"

\* a 5xx response taken for a failure
SucceededNot5xx(r) == r.err = NilErr /\ r.resp.status < 500

\* if err == nil
Succeeded(r) == r.err = NilErr

\* the base transport returns; RoundTrip returns the response, returns the
\* error, or remembers the error and goes on to back off
BaseReturns ==
    /\ pc = "inflight"
    /\ \E r \in [resp : [status : StatusCodes, attempt : {attempt}], err : {NilErr}]
              \cup [resp : {NilResp}, err : TransportErrors] :
          /\ ret' = r
          /\ log' = [log EXCEPT ![Len(log)].outcome = Outcome(r)]
          /\ IF Succeeded(r)
             THEN Return(r.resp, NilErr) /\ UNCHANGED lastErr
             ELSE IF ~isTransient(r.err)
             THEN Return(NilResp, r.err) /\ UNCHANGED lastErr
             ELSE lastErr' = r.err /\ pc' = "backoff" /\ UNCHANGED result
    /\ UNCHANGED <<t, req, ctx, attempt, cloned, timer, woken, waited, cancelledAt,
                   nextBody>>
    /\ UNCHANGED notTransportVars

\* delay := t.baseDelay * (1 << attempt); time.After(delay)
ArmTimer ==
    /\ pc = "backoff"
    /\ LET delay == Backoff(t.baseDelay, attempt)
       IN  /\ timer' = [delay |-> delay, state |-> "armed"]
           /\ log' = Append(log, [op |-> "wait", attempt |-> attempt,
                                  Header |-> EmptyHeader, Body |-> NilBody,
                                  outcome |-> "",
                                  delay |-> delay])
    /\ pc' = "select"
    /\ UNCHANGED <<t, req, ctx, attempt, lastErr, cloned, ret, woken, result, waited,
                   cancelledAt, nextBody>>
    /\ UNCHANGED notTransportVars

\* the delay has passed: the runtime delivers on the timer's channel.  The
\* timer runs from time.After on, whether or not the select has been reached.
TimerFires ==
    /\ pc \in {"select", "parked"}
    /\ timer.state = "armed"
    /\ timer' = [timer EXCEPT !.state = "fired"]
    /\ woken' = IF pc = "parked" /\ woken = "none" THEN "timer" ELSE woken
    /\ UNCHANGED <<t, req, ctx, pc, attempt, lastErr, cloned, ret, result, log, waited,
                   cancelledAt, nextBody>>
    /\ UNCHANGED notTransportVars

\* the caller cancels the request's context, or its deadline passes
Cancel ==
    /\ pc \notin {"idle", "done"}
    /\ ~ctx.done
    /\ \E e \in ContextErrors : ctx' = [done |-> TRUE, err |-> e]
    /\ cancelledAt' = [wait |-> pc \in {"select", "parked"} /\ timer.state = "armed",
                       attempt |-> attempt]
    /\ woken' = IF pc = "parked" /\ woken = "none" THEN "ctx" ELSE woken
    /\ UNCHANGED <<t, req, pc, attempt, lastErr, cloned, ret, timer, result, log,
                   waited, nextBody>>
    /\ UNCHANGED notTransportVars

\* the select proceeds with the case c
Proceed(c) ==
    IF c = "timer"
    THEN /\ waited' = DurationAdd(waited, timer.delay)
         /\ attempt' = attempt + 1
         /\ pc' = "loop"
         /\ UNCHANGED result
    ELSE /\ Return(NilResp, ctx.err)
         /\ UNCHANGED <<waited, attempt>>

ReadyCases == {c \in {"timer"} : timer.state = "fired"} \cup {c \in {"ctx"} : ctx.done}

\* select { case <-time.After(delay): case <-req.Context().Done(): }: a case
\* that can proceed is chosen, any of them when several can; with none the
\* goroutine parks on both channels
SelectPoll ==
    /\ pc = "select"
    /\ IF ReadyCases = {}
       THEN pc' = "parked" /\ UNCHANGED <<waited, attempt, result>>
       ELSE \E c \in ReadyCases : Proceed(c)
    /\ timer' = IF ReadyCases = {} THEN timer ELSE NoTimer
    /\ UNCHANGED <<t, req, ctx, lastErr, cloned, ret, woken, log, cancelledAt, nextBody>>
    /\ UNCHANGED notTransportVars

\* the parked select resumes with the case whose channel woke it
SelectWakes ==
    /\ pc = "parked"
    /\ woken # "none"
    /\ Proceed(woken)
    /\ woken' = "none"
    /\ timer' = NoTimer
    /\ UNCHANGED <<t, req, ctx, lastErr, cloned, ret, log, cancelledAt, nextBody>>
    /\ UNCHANGED notTransportVars

LifecycleIdle ==
    /\ world = <<>>
    /\ calls = <<>>
    /\ tb = [logged |-> 0, failed |-> FALSE]

NoScalar == [type |-> "none", op |-> "none", dest |-> <<>>, before |-> <<>>,
             in |-> <<>>, out |-> <<>>, err |-> FALSE]

CodecIdle == scalar = NoScalar

\* no client was created
ClientsIdle ==
    /\ chains = <<>>
    /\ trips = <<>>
    /\ received = {}

Init ==
    /\ \E rt \in RoundTrips : t = rt[1] /\ req = rt[2]
    /\ pc = "loop"
    /\ TransportIdle
    /\ LifecycleIdle
    /\ CodecIdle
    /\ ClientsIdle

Next ==
    \/ BeginAttempt
    \/ Exhausted
    \/ HeaderRoundTrip
    \/ BaseReturns
    \/ ArmTimer
    \/ TimerFires
    \/ Cancel
    \/ SelectPoll
    \/ SelectWakes

Spec == Init /\ [][Next]_vars

----------------------------------------------------------------------------
(* StartTwisp and TwispContainer.Cleanup over the container runtime *)

NoContainer == 0

SetCall(i, c) == calls' = [calls EXCEPT ![i] = c]

\* StartTwisp(ctx, opts...): the options are applied to the config
StartTwisp ==
    /\ Len(calls) < MaxStarts
    /\ \E keepAlive \in BOOLEAN :
          calls' = Append(calls, [pc |-> "create", keepAlive |-> keepAlive,
                                  container |-> NoContainer, handle |-> FALSE,
                                  cleanups |-> 0])
    /\ UNCHANGED <<world, tb>>
    /\ UNCHANGED notLifecycleVars

\* testcontainers.GenericContainer(ctx, {Started: true}): the container is
\* created, started and waited for; a failure may come before the container
\* exists or after it was started
GenericContainer(i) ==
    /\ calls[i].pc = "create"
    /\ \E out \in {"started", "not created", "start failed"} :
          /\ world' = IF out = "not created" THEN world
                      ELSE Append(world, [state |-> "running", terminates |-> 0,
                                          errors |-> 0])
          /\ SetCall(i, [calls[i] EXCEPT
                            !.container = IF out = "not created" THEN NoContainer
                                          ELSE Len(world) + 1,
                            !.pc = IF out = "started" THEN "host" ELSE "failed"])
    /\ UNCHANGED tb
    /\ UNCHANGED notLifecycleVars

\* container.Host(ctx)
Host(i) ==
    /\ calls[i].pc = "host"
    /\ \E ok \in BOOLEAN : SetCall(i, [calls[i] EXCEPT !.pc = IF ok THEN "port" ELSE "failed"])
    /\ UNCHANGED <<world, tb>>
    /\ UNCHANGED notLifecycleVars

\* container.MappedPort(ctx, "8080/tcp"), and the TwispContainer returned
MappedPort(i) ==
    /\ calls[i].pc = "port"
    /\ \E ok \in BOOLEAN :
          SetCall(i, [calls[i] EXCEPT !.pc = IF ok THEN "returned" ELSE "failed",
                                      !.handle = ok])
    /\ UNCHANGED <<world, tb>>
    /\ UNCHANGED notLifecycleVars

\* the KeepAlive check left out
CleanupNeverSkips(keepAlive) == FALSE

\* if tc.KeepAlive { return }
CleanupSkips(keepAlive) == keepAlive

\* the Terminate error reported with tb.Errorf, which marks the test failed
ErrorfTerminateError(b) == [b EXCEPT !.logged = @ + 1, !.failed = TRUE]

\* tb.Logf("failed to terminate twisp container: %v", err)
LogTerminateError(b) == [b EXCEPT !.logged = @ + 1]

\* tc.Cleanup(ctx, tb) on a TwispContainer StartTwisp returned; Terminate
\* may fail, as it does for a container that is gone already
Cleanup(i) ==
    /\ calls[i].handle
    /\ calls[i].cleanups < MaxCleanups
    /\ SetCall(i, [calls[i] EXCEPT !.cleanups = @ + 1])
    /\ IF CleanupSkips(calls[i].keepAlive)
       THEN UNCHANGED <<world, tb>>
       ELSE LET c == calls[i].container
            IN  \E err \in BOOLEAN :
                  /\ world' = [world EXCEPT
                                 ![c].terminates = @ + 1,
                                 ![c].errors = IF err THEN @ + 1 ELSE @,
                                 ![c].state = IF err THEN @ ELSE "terminated"]
                  /\ tb' = IF err THEN LogTerminateError(tb) ELSE tb
    /\ UNCHANGED notLifecycleVars

InitLifecycle ==
    /\ LifecycleIdle
    /\ t = [maxRetries |-> 0, baseDelay |-> Zeros(DurationBytes), headers |-> EmptyHeader]
    /\ req = [Header |-> EmptyHeader, Body |-> NilBody, GetBody |-> FALSE]
    /\ pc = "idle"
    /\ TransportIdle
    /\ CodecIdle
    /\ ClientsIdle

NextLifecycle ==
    \/ StartTwisp
    \/ \E i \in DOMAIN calls : GenericContainer(i)
    \/ \E i \in DOMAIN calls : Host(i)
    \/ \E i \in DOMAIN calls : MappedPort(i)
    \/ \E i \in DOMAIN calls : Cleanup(i)

SpecLifecycle == InitLifecycle /\ [][NextLifecycle]_vars

----------------------------------------------------------------------------
(* Claims about retryTransport.RoundTrip *)

IsSend(e) == e.op = "send"

IsWait(e) == e.op = "wait"

Sends == SelectSeq(log, IsSend)

Waits == SelectSeq(log, IsWait)

\* x + x without loss: one byte longer than x
Double(x) == AddBytes(x, x, Len(x) + 1)

\* d * 2^k without loss, by k doublings
RECURSIVE ExactBackoff(_, _)
ExactBackoff(d, k) == IF k = 0 THEN d ELSE Double(ExactBackoff(d, k - 1))

\* a Duration as a signed integer of n bytes
Extend(d, n) ==
    [i \in 1..n |-> IF i <= Len(d) THEN d[i] ELSE IF IsNegative(d) THEN 255 ELSE 0]

\* the log is send 0, wait, send 1, wait, ..., ending with send k
Alternates(k) ==
    /\ Len(log) = 2 * k + 1
    /\ \A j \in DOMAIN log :
          IF j % 2 = 1
          THEN IsSend(log[j]) /\ log[j].attempt = (j - 1) \div 2
          ELSE /\ IsWait(log[j])
               /\ log[j].attempt = (j \div 2) - 1
               /\ Extend(log[j].delay, DurationBytes + log[j].attempt)
                     = ExactBackoff(t.baseDelay, log[j].attempt)

\* the base transport failed transiently on its first k calls and succeeded on call k+1
FailedThenSucceeded(k) ==
    LET sends == Sends
    IN  /\ Len(sends) >= k + 1
        /\ \A i \in 1..k : sends[i].outcome = "transient"
        /\ sends[k + 1].outcome = "ok"

\* C1: with retry count N and base delay d, if the wrapped transport fails
\* transiently on its first k calls (k < N) and succeeds on call k+1, and the
\* context is never cancelled, RoundTrip returns that success response with a
\* nil error, exactly k+1 sends were made, sends and waits alternate (send 0,
\* wait d, send 1, wait 2d, ..., send k), and the backoff waited is d*(2^k - 1).
C1_RetryUntilSuccess ==
    \A k \in 0..(t.maxRetries - 1) :
        (FailedThenSucceeded(k) /\ ~ctx.done) =>
            /\ pc = "done"
            /\ result = [resp |-> ret.resp, err |-> NilErr]
            /\ ret.resp.attempt = k
            /\ ret.resp.status \in StatusCodes
            /\ Len(Sends) = k + 1
            /\ Alternates(k)
            /\ Extend(DurationAdd(waited, t.baseDelay), DurationBytes + k)
                  = ExactBackoff(t.baseDelay, k)

\* the client's transport succeeds on its fourth send, after three transient failures
C1_Witness ==
    /\ pc = "done"
    /\ ~ctx.done
    /\ t.maxRetries = ClientMaxRetries
    /\ FailedThenSucceeded(3)

\* C2: on whichever attempt the wrapped transport first returns a
\* non-transient error, RoundTrip returns that same error at once: no backoff
\* wait follows it and no further send; a transport whose first call fails
\* non-transiently is called exactly once.
C2_FatalErrorReturned ==
    \A i \in DOMAIN log :
        (IsSend(log[i]) /\ log[i].outcome = "fatal") =>
            /\ i = Len(log)
            /\ pc = "done"
            /\ ret.err \in TransportErrors
            /\ result = [resp |-> NilResp, err |-> ret.err]
            /\ (log[1].outcome = "fatal" => Len(log) = 1)

\* a non-transient error on the third send, after two transient failures
C2_Witness ==
    /\ pc = "done"
    /\ Len(Sends) = 3
    /\ Sends[3].outcome = "fatal"
    /\ result.err = ErrTLS

\* C6: a result of the wrapped transport with a nil error is a success
\* whatever its status code (5xx included): RoundTrip returns that response
\* at once and unchanged, with no retry and no backoff wait.
C6_NilErrorIsSuccess ==
    \A i \in DOMAIN log :
        (IsSend(log[i]) /\ log[i].outcome = "ok") =>
            /\ i = Len(log)
            /\ pc = "done"
            /\ ret.resp.status \in StatusCodes
            /\ ret.resp.attempt = log[i].attempt
            /\ result = [resp |-> ret.resp, err |-> NilErr]

\* a 503 response returned as the result of the first send
C6_Witness ==
    /\ pc = "done"
    /\ Len(log) = 1
    /\ result.resp.status = 503
    /\ result.err = NilErr

\* C5: the wait that follows a transient failure on attempt k is exactly
\* d * 2^k (d, 2d, 4d, ...: no cap, no jitter), and it is a positive, strictly
\* increasing duration for every attempt the configured N reaches: the signed
\* 64-bit product d * (1 << k) does not overflow or wrap.
C5_BackoffSchedule ==
    \* every wait is at some time the last entry of the log, which only grows
    (log # <<>> /\ IsWait(log[Len(log)])) =>
        LET n == Len(log)
            w == log[n]
        IN  /\ n = 2 * (w.attempt + 1)
            /\ Extend(w.delay, DurationBytes + w.attempt)
                  = ExactBackoff(t.baseDelay, w.attempt)
            /\ IsPositive(w.delay)
            /\ n > 2 => IsWait(log[n - 2]) /\ DurationLess(log[n - 2].delay, w.delay)

\* the client's transport backs off after its fifth send: 200ms * 16
C5_Witness ==
    /\ t.maxRetries = ClientMaxRetries
    /\ Len(Waits) = ClientMaxRetries
    /\ Waits[ClientMaxRetries].attempt = ClientMaxRetries - 1
    /\ timer.state = "fired"

Prior(k) == IF k \in DOMAIN req.Header THEN req.Header[k] ELSE <<>>

\* vals is a run of have that starts after its first n values
OccursAfter(vals, have, n) ==
    \E off \in n..(Len(have) - Len(vals)) :
        SubSeq(have, off + 1, off + Len(vals)) = vals

\* C8: for every configured key and its values, the request headerTransport
\* hands to the wrapped transport carries, for that key, the values the
\* request already had followed by the configured values in their configured
\* order; no value the request had is removed or replaced, and headers under
\* other keys are untouched.
C8_HeadersAdded ==
    \A i \in DOMAIN log :
        IsSend(log[i]) =>
            LET h == log[i].Header
            IN  /\ \A key \in DOMAIN t.headers :
                      LET k == CanonicalKey(key)
                      IN  /\ k \in DOMAIN h
                          /\ SubSeq(h[k], 1, Len(Prior(k))) = Prior(k)
                          /\ OccursAfter(t.headers[key], h[k], Len(Prior(k)))
                /\ \A k \in DOMAIN req.Header :
                      /\ k \in DOMAIN h
                      /\ SubSeq(h[k], 1, Len(Prior(k))) = Prior(k)
                /\ \A k \in DOMAIN h :
                      (\A key \in DOMAIN t.headers : CanonicalKey(key) # k) =>
                          k \in DOMAIN req.Header /\ h[k] = req.Header[k]

\* a request that already carries X-A: 0 is sent with two configured values after it
C8_Witness ==
    /\ t.headers = (xa :> <<"1", "2">>)
    /\ log # <<>>
    /\ IsSend(log[Len(log)])
    /\ log[Len(log)].Header = (XA :> <<"0", "1", "2">>) @@ (XB :> <<"9">>)

\* C3: if the request's context is cancelled (or its deadline passes) while
\* RoundTrip is in a backoff wait, the wait and the operation are aborted:
\* RoundTrip returns the context's error and makes no further send, however
\* the cancellation interleaves with the backoff timer firing.
C3_CancelAbortsBackoff ==
    cancelledAt.wait =>
        /\ \A i \in DOMAIN Sends : Sends[i].attempt <= cancelledAt.attempt
        /\ pc = "done" => result = [resp |-> NilResp, err |-> ctx.err]

\* C4: with N >= 1, when all N sends were made and each failed transiently,
\* the error RoundTrip returns is the transient error of the N-th send,
\* whatever happens after that send (the context being cancelled included).
C4_ExhaustedReturnsLastError ==
    (/\ pc = "done"
     /\ t.maxRetries >= 1
     /\ Len(Sends) = t.maxRetries
     /\ \A i \in DOMAIN Sends : Sends[i].outcome = "transient")
        => result = [resp |-> NilResp, err |-> ret.err]

\* C7: every send of a request that carries a body hands the wrapped
\* transport a fresh, unread copy of the body, never a stream an earlier
\* attempt was given, whether or not the request has a GetBody.
C7_FreshBodyEachAttempt ==
    req.Body # NilBody =>
        \A j \in DOMAIN Sends :
            /\ Sends[j].Body # NilBody
            /\ \A i \in 1..(j - 1) : Sends[i].Body # Sends[j].Body

----------------------------------------------------------------------------
(* Claims about StartTwisp and Cleanup *)

\* C9 as stated: for a container StartTwisp returned that is not kept alive,
\* Terminate is invoked exactly once over any sequence of Cleanup calls (a
\* second Cleanup does not terminate again); for one kept alive Cleanup never
\* invokes Terminate and the container stays running.
C9_TerminateOnce ==
    \A i \in DOMAIN calls :
        calls[i].handle =>
            LET c == world[calls[i].container]
            IN  IF calls[i].keepAlive
                THEN c.terminates = 0 /\ c.state = "running"
                ELSE calls[i].cleanups >= 1 => c.terminates = 1

\* C9 amended: for a container StartTwisp returned that is not kept alive,
\* every Cleanup call invokes Terminate once, so Terminate has been invoked
\* as many times as Cleanup was called (once after the first Cleanup, again
\* on a second); for one kept alive Cleanup never invokes Terminate and the
\* container stays running.
C9_TerminatePerCleanup ==
    \A i \in DOMAIN calls :
        calls[i].handle =>
            LET c == world[calls[i].container]
            IN  IF calls[i].keepAlive
                THEN c.terminates = 0 /\ c.state = "running"
                ELSE c.terminates = calls[i].cleanups

\* one container cleaned up twice, another kept alive through a Cleanup
C9_Witness ==
    \E i, j \in DOMAIN calls :
        /\ calls[i].handle /\ ~calls[i].keepAlive /\ calls[i].cleanups = 2
        /\ calls[j].handle /\ calls[j].keepAlive /\ calls[j].cleanups >= 1

\* C10: whenever StartTwisp returns an error (the container failed to start,
\* or its host or its mapped port could not be resolved), no container that
\* call launched is left running; a container is left running only when a
\* handle that can clean it up was returned.
C10_NoContainerLeftOnError ==
    \A i \in DOMAIN calls :
        calls[i].pc = "failed" =>
            \/ calls[i].container = NoContainer
            \/ world[calls[i].container].state # "running"

\* number of Terminate calls that returned an error, over the first n containers
RECURSIVE TerminateErrors(_)
TerminateErrors(n) == IF n = 0 THEN 0 ELSE world[n].errors + TerminateErrors(n - 1)

\* C11: Cleanup never fails the caller: when Terminate returns an error (a
\* container an earlier Cleanup terminated included), Cleanup writes one line
\* to the test log and returns normally; the test is never marked failed.
C11_CleanupOnlyLogs ==
    /\ ~tb.failed
    /\ tb.logged = TerminateErrors(Len(world))
    /\ \A i \in DOMAIN calls :
          (calls[i].handle /\ ~calls[i].keepAlive) =>
              world[calls[i].container].terminates = calls[i].cleanups

\* two Cleanup calls on one container have returned: one terminated it, the
\* Terminate of the other failed and was logged
C11_Witness ==
    \E i \in DOMAIN calls :
        /\ calls[i].handle
        /\ calls[i].cleanups = 2
        /\ world[calls[i].container].state = "terminated"
        /\ world[calls[i].container].errors = 1
        /\ tb.logged >= 1

----------------------------------------------------------------------------
(* Claims about the loop of retryTransport.RoundTrip *)

\* C14: a backoff wait follows a transient failure on attempt k only if
\* k < N-1: one RoundTrip call makes at most N-1 backoff waits, and after the
\* N-th (final) send fails it returns without waiting.
C14_WaitsOnlyBeforeRetry ==
    LET waits == Waits
    IN  /\ \A i \in DOMAIN waits : waits[i].attempt < t.maxRetries - 1
        /\ t.maxRetries >= 1 => Len(waits) <= t.maxRetries - 1

\* C15: the sends made to the wrapped transport never exceed N, whatever the
\* wrapped transport returns and whenever the context is cancelled; they are
\* attempts 0, 1, ... N-1 in that order, and at most one send is in flight:
\* only the last send can be without an outcome, while RoundTrip waits for it.
C15_AttemptBound ==
    LET sends == Sends
        n == IF t.maxRetries > 0 THEN t.maxRetries ELSE 0
    IN  /\ Len(sends) <= n
        /\ \A i \in DOMAIN sends :
              /\ sends[i].attempt = i - 1
              /\ sends[i].outcome = "pending" => i = Len(sends) /\ pc = "inflight"
        /\ pc = "inflight" => log # <<>> /\ log[Len(log)].outcome = "pending"
        /\ 0 <= attempt /\ attempt <= n
        /\ pc \in {"send", "inflight", "backoff", "select", "parked"} => attempt < n

\* the client's fifth send is in flight, its context cancelled on the way
C15_Witness ==
    /\ t.maxRetries = ClientMaxRetries
    /\ ctx.done
    /\ pc = "inflight"
    /\ Len(Sends) = ClientMaxRetries
    /\ attempt = ClientMaxRetries - 1

\* C16: when the request carries a body and a fresh copy cannot be had for an
\* attempt (GetBody returns an error, or the request has a body and no GetBody
\* at all), RoundTrip fails at once with an error on that attempt: the request
\* of that attempt is not sent, and no backoff wait and no retry follow.
C16_NoSendWithoutFreshBody ==
    /\ (req.Body # NilBody /\ ~req.GetBody) =>
          /\ log = <<>>
          /\ pc \in {"loop", "done"}
          /\ (pc = "done" /\ t.maxRetries >= 1) => result.err # NilErr
    /\ (pc = "done" /\ result.err = ErrGetBody) =>
          /\ result.resp = NilResp
          /\ \A i \in DOMAIN log : log[i].attempt < attempt

\* how many times the value v occurs in the values vals
Count(vals, v) == Cardinality({j \in DOMAIN vals : vals[j] = v})

Range(vals) == {vals[j] : j \in DOMAIN vals}

\* the values a header set has under the key k
ValuesOf(h, k) == IF k \in DOMAIN h THEN h[k] ELSE <<>>

\* how many times the configured headers give the value v under the keys keys
RECURSIVE ConfiguredCount(_, _)
ConfiguredCount(keys, v) ==
    IF keys = {} THEN 0
    ELSE LET key == CHOOSE x \in keys : TRUE
         IN  Count(t.headers[key], v) + ConfiguredCount(keys \ {key}, v)

\* the request of every send carries, under every key, each value as often
\* as the caller's request has it plus as often as it is configured
InjectedOnce ==
    \A i \in DOMAIN log :
        IsSend(log[i]) =>
            LET h == log[i].Header
            IN  \A k \in DOMAIN h \cup {CanonicalKey(key) : key \in DOMAIN t.headers} :
                    LET configured == {key \in DOMAIN t.headers : CanonicalKey(key) = k}
                        values == Range(ValuesOf(h, k)) \cup Range(Prior(k))
                                    \cup UNION {Range(t.headers[key]) : key \in configured}
                    IN  \A v \in values :
                            Count(ValuesOf(h, k), v)
                                = Count(Prior(k), v) + ConfiguredCount(configured, v)

\* C17: through the chain retryTransport -> headerTransport -> base, no step
\* of RoundTrip changes the caller's request (its header set after the call is
\* the one before it), and the request the base transport receives on every
\* attempt carries each configured header value exactly once on top of the
\* caller's: injected headers do not accumulate from one retry to the next.
C17_OriginalNotMutated == [](InjectedOnce) /\ [][req' = req]_vars

\* the second send of a request that came with X-A: 0, two values configured
\* for X-A under differently spelled keys
C17_Witness ==
    /\ t.headers = (xa :> <<"1">>) @@ (XA :> <<"2">>)
    /\ req.Header = (XA :> <<"0">>) @@ (XB :> <<"9">>)
    /\ Len(Sends) = 2
    /\ Len(Sends[2].Header[XA]) = 3
    /\ pc = "inflight"

\* C18: isTransient holds of an error if and only if it is a connection
\* refused, a connection reset, or an error of the dial phase; every other
\* transport error (a TLS error, a timeout of a read) is not transient, and
\* RoundTrip returns it the first time the wrapped transport returns it,
\* while a transient one is kept as lastErr and the loop goes on.
C18_TransientClassification ==
    /\ \A e \in TransportErrors :
          isTransient(e) <=> e \in {ErrDialRefused, ErrReadReset, ErrDialTimeout}
    /\ ret.err # NilErr =>
          IF ret.err \in {ErrReadTimeout, ErrTLS}
          THEN /\ pc = "done"
               /\ result = [resp |-> NilResp, err |-> ret.err]
               /\ IsSend(log[Len(log)])
               /\ \A i \in 1..(Len(log) - 1) : IsSend(log[i]) => log[i].outcome = "transient"
          ELSE /\ lastErr = ret.err
               /\ pc = "done" => result.err \in {ret.err, ctx.err, ErrGetBody}

\* a dial timeout was retried, and the read timeout of the second send returned
C18_Witness ==
    /\ pc = "done"
    /\ lastErr = ErrDialTimeout
    /\ ret.err = ErrReadTimeout
    /\ result.err = ErrReadTimeout
    /\ Len(Sends) = 2

----------------------------------------------------------------------------
(* Termination of retryTransport.RoundTrip *)

\* a call that has not returned has a step to take: its own next statement,
\* the return of the send it waits for, or the firing of the timer it waits
\* for (ArmTimer and SelectPoll ask for nothing but their position)
NeverStuck ==
    /\ pc \in {"loop", "send", "inflight", "backoff", "select", "parked", "done"}
    /\ pc = "loop" => ENABLED (BeginAttempt \/ Exhausted)
    /\ pc = "send" => ENABLED HeaderRoundTrip
    /\ pc = "inflight" => ENABLED BaseReturns
    /\ pc = "parked" => ENABLED (TimerFires \/ SelectWakes)

\* steps left at most: the attempts left, the position within the attempt,
\* the timer still to fire and the cancellation still to come
Rank ==
    LET n == IF t.maxRetries > 0 THEN t.maxRetries ELSE 0
        at == CASE pc = "loop" -> 14
                [] pc = "send" -> 12
                [] pc = "inflight" -> 10
                [] pc = "backoff" -> 8
                [] pc = "select" -> 6
                [] pc = "parked" -> 4
                [] OTHER -> 0
    IN  IF pc = "done" THEN 0
        ELSE 16 * (n - attempt) + at + (IF timer.state = "armed" THEN 1 ELSE 0)
                                     + (IF ctx.done THEN 0 ELSE 1)

\* the context was cancelled while a backoff timer was running, or a backoff
\* wait was begun after it was cancelled
CancelledInOrBeforeWait ==
    /\ ctx.done
    /\ \/ cancelledAt.wait
       \/ \E i \in DOMAIN log : IsWait(log[i]) /\ log[i].attempt > cancelledAt.attempt

\* C20: RoundTrip always terminates: a call that has not returned is never
\* stuck (every send returns, every timer fires) and every step brings it
\* nearer to its return, so it returns a response or an error; and once the
\* context is cancelled, a call that is in a backoff wait, or enters one
\* later, returns a cancellation-kind error.
C20_ReturnsOrCancels ==
    /\ [](NeverStuck)
    /\ [][Rank' < Rank]_vars
    /\ []((pc = "done" /\ CancelledInOrBeforeWait) => result.err \in ContextErrors)

----------------------------------------------------------------------------
(* The scalar codecs of scalars.go.  Text and JSON bytes are sequences of   *)
(* characters.                                                              *)

\* longest text of a Decimal given to UnmarshalJSON
MaxText == 4

Quote == "\""

Backslash == "\\"

Null == <<"n", "u", "l", "l">>

DigitChars == <<"0", "1", "2", "3", "4", "5", "6", "7", "8", "9">>

IsDigit(c) == \E i \in DOMAIN DigitChars : DigitChars[i] = c

DigitValue(c) == (CHOOSE i \in DOMAIN DigitChars : DigitChars[i] = c) - 1

\* the texts of at most n characters of the alphabet
Texts(alphabet, n) == UNION {[1..k -> alphabet] : k \in 0..n}

Quoted(s) == <<Quote>> \o s \o <<Quote>>

IsQuoted(b) == Len(b) >= 2 /\ b[1] = Quote /\ b[Len(b)] = Quote

\* a JSON string literal; the texts of the model hold no escape sequence and
\* no control character
IsJSONString(b) ==
    /\ IsQuoted(b)
    /\ \A i \in 2..(Len(b) - 1) : b[i] \notin {Quote, Backslash}

\* one step of the scanner of encoding/json inside a number literal
NumberStep(state, c) ==
    CASE state = "begin" ->
            IF c = "-" THEN "neg" ELSE IF c = "0" THEN "0"
            ELSE IF IsDigit(c) THEN "1" ELSE "bad"
      [] state = "neg" ->
            IF c = "0" THEN "0" ELSE IF IsDigit(c) THEN "1" ELSE "bad"
      [] state = "0" ->
            IF c = "." THEN "dot" ELSE IF c \in {"e", "E"} THEN "e" ELSE "bad"
      [] state = "1" ->
            IF IsDigit(c) THEN "1" ELSE IF c = "." THEN "dot"
            ELSE IF c \in {"e", "E"} THEN "e" ELSE "bad"
      [] state = "dot" ->
            IF IsDigit(c) THEN "dot0" ELSE "bad"
      [] state = "dot0" ->
            IF IsDigit(c) THEN "dot0" ELSE IF c \in {"e", "E"} THEN "e" ELSE "bad"
      [] state = "e" ->
            IF c \in {"+", "-"} THEN "esign" ELSE IF IsDigit(c) THEN "e0" ELSE "bad"
      [] state = "esign" ->
            IF IsDigit(c) THEN "e0" ELSE "bad"
      [] state = "e0" ->
            IF IsDigit(c) THEN "e0" ELSE "bad"
      [] OTHER -> "bad"

\* a JSON number literal: -? (0 | [1-9][0-9]*) (. [0-9]+)? ([eE] [+-]? [0-9]+)?
IsJSONNumber(b) ==
    LET st[i \in 0..Len(b)] == IF i = 0 THEN "begin" ELSE NumberStep(st[i - 1], b[i])
    IN  st[Len(b)] \in {"0", "1", "dot0", "e0"}

\* json.Unmarshal(b, &s) for a new string s: a string literal gives its
\* text, null leaves s empty, anything else is an error
UnmarshalString(b) ==
    IF IsJSONString(b) THEN [ok |-> TRUE, value |-> SubSeq(b, 2, Len(b) - 1)]
    ELSE IF b = Null THEN [ok |-> TRUE, value |-> <<>>]
    ELSE [ok |-> FALSE, value |-> <<>>]

\* json.Unmarshal(b, &n) for a new json.Number n: a number literal is kept as
\* its text, a string literal must hold a number, null leaves n empty
UnmarshalNumber(b) ==
    IF IsJSONNumber(b) THEN [ok |-> TRUE, value |-> b]
    ELSE IF IsJSONString(b) /\ IsJSONNumber(SubSeq(b, 2, Len(b) - 1))
    THEN [ok |-> TRUE, value |-> SubSeq(b, 2, Len(b) - 1)]
    ELSE IF b = Null THEN [ok |-> TRUE, value |-> <<>>]
    ELSE [ok |-> FALSE, value |-> <<>>]

EscapeChar(c) ==
    IF c = Quote THEN <<Backslash, Quote>>
    ELSE IF c = Backslash THEN <<Backslash, Backslash>>
    ELSE <<c>>

\* json.Marshal(s) of a string s
MarshalString(s) ==
    LET esc[i \in 0..Len(s)] == IF i = 0 THEN <<>> ELSE esc[i - 1] \o EscapeChar(s[i])
    IN  <<Quote>> \o esc[Len(s)] \o <<Quote>>

\* the number read as a float64 and printed again: the zeros that end its
\* fraction are gone
FloatString(n) ==
    IF \E i \in DOMAIN n : n[i] = "."
    THEN LET k == CHOOSE j \in DOMAIN n :
                      n[j] # "0" /\ \A i \in (j + 1)..Len(n) : n[i] = "0"
         IN  IF n[k] = "." THEN SubSeq(n, 1, k - 1) ELSE SubSeq(n, 1, k)
    ELSE n

\* n.String(): the text of the literal
NumberString(n) == n

\* (*Decimal).UnmarshalJSON(b) on a Decimal d: the Decimal after the call
\* and whether an error was returned
DecimalUnmarshal(d, b) ==
    LET s == UnmarshalString(b)
        n == UnmarshalNumber(b)
    IN  IF s.ok THEN [dest |-> s.value, err |-> FALSE]
        ELSE IF n.ok THEN [dest |-> NumberString(n.value), err |-> FALSE]
        ELSE [dest |-> d, err |-> TRUE]

\* Decimal.MarshalJSON()
DecimalMarshal(d) == MarshalString(d)

IsLeap(y) == y % 4 = 0 /\ (y % 100 # 0 \/ y % 400 = 0)

DaysIn(m, y) ==
    IF m = 2 THEN (IF IsLeap(y) THEN 29 ELSE 28)
    ELSE IF m \in {4, 6, 9, 11} THEN 30 ELSE 31

\* the first n characters are digits: their value, and -1 otherwise
Number(s, n) ==
    IF Len(s) >= n /\ \A i \in 1..n : IsDigit(s[i])
    THEN LET v[i \in 0..n] == IF i = 0 THEN 0 ELSE 10 * v[i - 1] + DigitValue(s[i])
         IN  v[n]
    ELSE -1

Rest(s, n) == SubSeq(s, n + 1, Len(s))

\* time.Parse("2006-01-02", s): four digits of year, "-", two digits of
\* month, "-", two digits of day, nothing after them; the month is 1..12 and
\* the day a day of that month
ParseDate(s) ==
    LET year == Number(s, 4)
        s1 == Rest(s, 4)
        s2 == Rest(s1, 1)
        month == Number(s2, 2)
        s3 == Rest(s2, 2)
        s4 == Rest(s3, 1)
        day == Number(s4, 2)
        s5 == Rest(s4, 2)
        bad == [ok |-> FALSE, value |-> [year |-> 0, month |-> 0, day |-> 0]]
    IN  IF year < 0 THEN bad
        ELSE IF s1 = <<>> \/ s1[1] # "-" THEN bad
        ELSE IF month < 0 THEN bad
        ELSE IF s3 = <<>> \/ s3[1] # "-" THEN bad
        ELSE IF day < 0 THEN bad
        ELSE IF s5 # <<>> THEN bad
        ELSE IF month <= 0 \/ 12 < month THEN bad
        ELSE IF day < 1 \/ day > DaysIn(month, year) THEN bad
        ELSE [ok |-> TRUE, value |-> [year |-> year, month |-> month, day |-> day]]

\* (*Date).UnmarshalJSON(b) on a Date d
DateUnmarshal(d, b) ==
    LET s == UnmarshalString(b)
        parsed == ParseDate(s.value)
    IN  IF ~s.ok THEN [dest |-> d, err |-> TRUE]
        ELSE IF ~parsed.ok THEN [dest |-> d, err |-> TRUE]
        ELSE [dest |-> parsed.value, err |-> FALSE]

\* the n decimal digits of v
Digits(v, n) == [i \in 1..n |-> DigitChars[((v \div (10 ^ (n - i))) % 10) + 1]]

\* d.Time.Format("2006-01-02")
FormatDate(d) == Digits(d.year, 4) \o <<"-">> \o Digits(d.month, 2) \o <<"-">> \o Digits(d.day, 2)

\* (*Date).MarshalJSON()
DateMarshal(d) == MarshalString(FormatDate(d))

\* texts given to (*Decimal).UnmarshalJSON, as JSON strings and bare
DecimalTexts == Texts({"0", "1", "-", ".", "a"}, MaxText)

DecimalWires == DecimalTexts \cup {Quoted(s) : s \in DecimalTexts} \cup {Null}

\* texts given to (*Date).UnmarshalJSON: dates, dates that are none, and
\* dates in other forms
DateTexts ==
    {y \o <<p>> \o m \o <<q>> \o d \o z :
        y \in {<<"2", "0", "2", "4">>, <<"2", "0", "2", "5">>, <<"2", "0", "2">>},
        p \in {"-", "/"},
        m \in {<<"0", "1">>, <<"0", "2">>, <<"1", "3">>, <<"2">>},
        q \in {"-", "/"},
        d \in {<<"2", "8">>, <<"2", "9">>, <<"3", "0">>, <<"3", "1">>, <<"0", "0">>, <<"5">>},
        z \in {<<>>, <<"T">>}}
    \cup {<<>>, <<"1", "5", "/", "0", "1", "/", "2", "0", "2", "4">>}

DateWires == DateTexts \cup {Quoted(s) : s \in DateTexts} \cup {Null}

\* the zero time.Time
ZeroDate == [year |-> 1, month |-> 1, day |-> 1]

\* a new scalar value: the zero value, or a value set before
NewScalar(type, dest) ==
    [type |-> type, op |-> "new", dest |-> dest, before |-> dest,
     in |-> <<>>, out |-> <<>>, err |-> FALSE]

DecimalUnmarshalJSON ==
    /\ scalar.type = "Decimal"
    /\ scalar.op = "new"
    /\ \E b \in DecimalWires :
          LET r == DecimalUnmarshal(scalar.dest, b)
          IN  scalar' = [scalar EXCEPT !.op = "unmarshal", !.in = b, !.before = scalar.dest,
                                       !.dest = r.dest, !.err = r.err]
    /\ UNCHANGED notCodecVars

DecimalMarshalJSON ==
    /\ scalar.type = "Decimal"
    /\ scalar.op \in {"new", "unmarshal"}
    /\ scalar' = [scalar EXCEPT !.op = "marshal", !.out = DecimalMarshal(scalar.dest)]
    /\ UNCHANGED notCodecVars

DateUnmarshalJSON ==
    /\ scalar.type = "Date"
    /\ scalar.op = "new"
    /\ \E b \in DateWires :
          LET r == DateUnmarshal(scalar.dest, b)
          IN  scalar' = [scalar EXCEPT !.op = "unmarshal", !.in = b, !.before = scalar.dest,
                                       !.dest = r.dest, !.err = r.err]
    /\ UNCHANGED notCodecVars

DateMarshalJSON ==
    /\ scalar.type = "Date"
    /\ scalar.op \in {"new", "unmarshal"}
    /\ scalar' = [scalar EXCEPT !.op = "marshal", !.out = DateMarshal(scalar.dest)]
    /\ UNCHANGED notCodecVars

InitScalars ==
    /\ \/ \E d \in {<<>>, <<"7">>} : scalar = NewScalar("Decimal", d)
       \/ \E d \in {ZeroDate, [year |-> 2024, month |-> 2, day |-> 29]} :
             scalar = NewScalar("Date", d)
    /\ LifecycleIdle
    /\ t = [maxRetries |-> 0, baseDelay |-> Zeros(DurationBytes), headers |-> EmptyHeader]
    /\ req = [Header |-> EmptyHeader, Body |-> NilBody, GetBody |-> FALSE]
    /\ pc = "idle"
    /\ TransportIdle
    /\ ClientsIdle

NextScalars ==
    \/ DecimalUnmarshalJSON
    \/ DecimalMarshalJSON
    \/ DateUnmarshalJSON
    \/ DateMarshalJSON

SpecScalars == InitScalars /\ [][NextScalars]_vars

----------------------------------------------------------------------------
(* Claims about the scalar codecs *)

\* one step of reading a decimal numeral: -? [0-9]+ (. [0-9]+)?
DecimalStep(state, c) ==
    CASE state = "begin" -> IF c = "-" THEN "sign" ELSE IF IsDigit(c) THEN "int" ELSE "bad"
      [] state = "sign" -> IF IsDigit(c) THEN "int" ELSE "bad"
      [] state = "int" -> IF IsDigit(c) THEN "int" ELSE IF c = "." THEN "point" ELSE "bad"
      [] state = "point" -> IF IsDigit(c) THEN "frac" ELSE "bad"
      [] state = "frac" -> IF IsDigit(c) THEN "frac" ELSE "bad"
      [] OTHER -> "bad"

\* a decimal numeral: an optional minus sign, digits, and optionally a point
\* and digits
IsDecimal(s) ==
    LET st[i \in 0..Len(s)] == IF i = 0 THEN "begin" ELSE DecimalStep(st[i - 1], s[i])
    IN  st[Len(s)] \in {"int", "frac"}

\* the text the bytes carry: what is between the quotes, or the bytes
TextOfWire(b) == IF IsQuoted(b) THEN SubSeq(b, 2, Len(b) - 1) ELSE b

\* the Decimal decoded from the bytes is their text exactly, and encoding it
\* gives the JSON string of that text
DecodedVerbatim ==
    LET s == TextOfWire(scalar.in)
    IN  /\ ~scalar.err
        /\ scalar.dest = s
        /\ scalar.op = "marshal" => scalar.out = Quoted(s)

\* C12 as stated: for every decimal numeral s, decoding the JSON string of s
\* and decoding s as a bare JSON number both give the Decimal whose text is
\* exactly s (nothing rounded, no trailing zero dropped), and encoding that
\* Decimal gives the JSON string of s: encode(decode(s)) == s.
C12_DecimalRoundTrip ==
    (/\ scalar.type = "Decimal"
     /\ scalar.op \in {"unmarshal", "marshal"}
     /\ IsDecimal(TextOfWire(scalar.in)))
        => DecodedVerbatim

\* C12 amended: for every decimal numeral s, decoding the JSON string of s
\* gives the Decimal whose text is exactly s, and so does decoding the bare
\* bytes s when s is a JSON number literal (no zero before its first
\* digit unless it is the only one); encoding that Decimal gives the JSON
\* string of s: encode(decode(s)) == s.  Bare bytes that are a numeral and
\* no JSON number, as 01.5, are rejected with an error.
C12_DecimalRoundTripOfJSON ==
    (/\ scalar.type = "Decimal"
     /\ scalar.op \in {"unmarshal", "marshal"}
     /\ IsDecimal(TextOfWire(scalar.in)))
        => IF IsQuoted(scalar.in) \/ IsJSONNumber(scalar.in)
           THEN DecodedVerbatim
           ELSE scalar.err /\ scalar.dest = scalar.before

\* the bare number 1.00 was decoded into a Decimal that held 7, and encoded
C12_Witness ==
    /\ scalar.type = "Decimal"
    /\ scalar.op = "marshal"
    /\ scalar.before = <<"7">>
    /\ scalar.in = <<"1", ".", "0", "0">>
    /\ scalar.out = <<Quote, "1", ".", "0", "0", Quote>>

\* exact YYYY-MM-DD: ten characters, digits around two hyphens, that name a
\* day of the calendar
IsISODate(s) ==
    /\ Len(s) = 10
    /\ \A i \in {1, 2, 3, 4, 6, 7, 9, 10} : IsDigit(s[i])
    /\ s[5] = "-" /\ s[8] = "-"
    /\ LET y == Number(s, 4)
           m == Number(SubSeq(s, 6, 7), 2)
           d == Number(SubSeq(s, 9, 10), 2)
       IN  m \in 1..12 /\ d \in 1..DaysIn(m, y)

\* C13: decoding bytes that do not match the scalar's grammar fails with an
\* error and leaves the destination as it was: (*Decimal).UnmarshalJSON
\* rejects a JSON string that is no decimal numeral ("abc", the empty string)
\* and every other text that is none, and (*Date).UnmarshalJSON rejects
\* whatever is not the JSON string of an exact YYYY-MM-DD date.
C13_MalformedRejected ==
    scalar.op = "unmarshal" =>
        /\ scalar.err => scalar.dest = scalar.before
        /\ (scalar.type = "Decimal" /\ ~IsDecimal(TextOfWire(scalar.in))) =>
              scalar.err /\ scalar.dest = scalar.before
        /\ (scalar.type = "Date" /\ ~(IsQuoted(scalar.in) /\ IsISODate(TextOfWire(scalar.in)))) =>
              scalar.err /\ scalar.dest = scalar.before

----------------------------------------------------------------------------
(* Several clients made by NewGraphQLClient on one TwispContainer, their    *)
(* requests in progress at the same time over the shared base transport     *)

\* number of clients
MaxClients == 2

Clients == 1..MaxClients

\* one chain kept for all clients, its headers set anew by each NewGraphQLClient
ChainShared(c) == 1

\* NewGraphQLClient builds a retryTransport and a headerTransport of its own
\* for every client
ChainOf(c) == c

\* the value a client's header set has for its account, one per client
AccountId(c) == DigitChars[c + 1]

\* the header set a client is created with
ClientHeaders(c) == (xa :> <<AccountId(c)>>)

\* the request genqlient hands to the client's transport
ClientRequest == [Header |-> (XA :> <<"0">>) @@ (XB :> <<"9">>), Body |-> OriginalBody,
                  GetBody |-> TRUE]

NoChain == [headers |-> EmptyHeader, maxRetries |-> 0]

NoTrip == [pc |-> "none", headers |-> EmptyHeader, attempt |-> 0, lastErr |-> NilErr,
           cloned |-> NoRequest, cancelled |-> FALSE, result |-> NilErr]

SetTrip(c, trip) == trips' = [trips EXCEPT ![c] = trip]

\* tc.NewGraphQLClient(headers)
NewGraphQLClient(c) ==
    /\ trips[c].pc = "none"
    /\ chains' = [chains EXCEPT ![ChainOf(c)] = [headers |-> ClientHeaders(c),
                                                 maxRetries |-> ClientMaxRetries]]
    /\ SetTrip(c, [trips[c] EXCEPT !.pc = "ready", !.headers = ClientHeaders(c)])
    /\ UNCHANGED received
    /\ UNCHANGED notClientVars

\* the client sends a request: its transport's RoundTrip is entered
ClientDo(c) ==
    /\ trips[c].pc = "ready"
    /\ SetTrip(c, [trips[c] EXCEPT !.pc = "loop"])
    /\ UNCHANGED <<chains, received>>
    /\ UNCHANGED notClientVars

ClientBeginAttempt(c) ==
    /\ trips[c].pc = "loop"
    /\ InRange(trips[c].attempt, chains[ChainOf(c)].maxRetries)
    /\ SetTrip(c, [trips[c] EXCEPT !.pc = "send", !.cloned = Clone(ClientRequest)])
    /\ UNCHANGED <<chains, received>>
    /\ UNCHANGED notClientVars

ClientExhausted(c) ==
    /\ trips[c].pc = "loop"
    /\ ~InRange(trips[c].attempt, chains[ChainOf(c)].maxRetries)
    /\ SetTrip(c, [trips[c] EXCEPT !.pc = "done", !.result = trips[c].lastErr])
    /\ UNCHANGED <<chains, received>>
    /\ UNCHANGED notClientVars

\* the headerTransport of the client's chain adds its headers and hands the
\* request to the base transport
ClientHeaderRoundTrip(c) ==
    /\ trips[c].pc = "send"
    /\ \E order \in KeyOrders(chains[ChainOf(c)].headers) :
          LET sent == [trips[c].cloned EXCEPT
                          !.Header = AddHeaders(trips[c].cloned.Header,
                                                chains[ChainOf(c)].headers, order)]
          IN  /\ SetTrip(c, [trips[c] EXCEPT !.pc = "inflight", !.cloned = sent])
              /\ received' = received \cup {[client |-> c, Header |-> sent.Header]}
    /\ UNCHANGED chains
    /\ UNCHANGED notClientVars

\* the base transport returns to the client's RoundTrip
ClientBaseReturns(c) ==
    /\ trips[c].pc = "inflight"
    /\ \E r \in {[resp |-> [status |-> 200, attempt |-> trips[c].attempt], err |-> NilErr],
                 [resp |-> NilResp, err |-> ErrDialRefused],
                 [resp |-> NilResp, err |-> ErrTLS]} :
          IF Succeeded(r)
          THEN SetTrip(c, [trips[c] EXCEPT !.pc = "done", !.result = NilErr])
          ELSE IF ~isTransient(r.err)
          THEN SetTrip(c, [trips[c] EXCEPT !.pc = "done", !.result = r.err])
          ELSE SetTrip(c, [trips[c] EXCEPT !.pc = "backoff", !.lastErr = r.err])
    /\ UNCHANGED <<chains, received>>
    /\ UNCHANGED notClientVars

\* the select of the backoff proceeds: the timer fired, or the context is done
ClientBackoff(c) ==
    /\ trips[c].pc = "backoff"
    /\ \E case \in {"timer"} \cup {x \in {"ctx"} : trips[c].cancelled} :
          IF case = "timer"
          THEN SetTrip(c, [trips[c] EXCEPT !.pc = "loop", !.attempt = @ + 1])
          ELSE SetTrip(c, [trips[c] EXCEPT !.pc = "done", !.result = Canceled])
    /\ UNCHANGED <<chains, received>>
    /\ UNCHANGED notClientVars

\* the context of the client's request is cancelled
ClientCancel(c) ==
    /\ trips[c].pc \in {"loop", "send", "inflight", "backoff"}
    /\ ~trips[c].cancelled
    /\ SetTrip(c, [trips[c] EXCEPT !.cancelled = TRUE])
    /\ UNCHANGED <<chains, received>>
    /\ UNCHANGED notClientVars

InitClients ==
    /\ chains = [c \in Clients |-> NoChain]
    /\ trips = [c \in Clients |-> NoTrip]
    /\ received = {}
    /\ LifecycleIdle
    /\ CodecIdle
    /\ t = [maxRetries |-> 0, baseDelay |-> Zeros(DurationBytes), headers |-> EmptyHeader]
    /\ req = [Header |-> EmptyHeader, Body |-> NilBody, GetBody |-> FALSE]
    /\ pc = "idle"
    /\ TransportIdle

NextClients ==
    \/ \E c \in Clients : NewGraphQLClient(c)
    \/ \E c \in Clients : ClientDo(c)
    \/ \E c \in Clients : ClientBeginAttempt(c)
    \/ \E c \in Clients : ClientExhausted(c)
    \/ \E c \in Clients : ClientHeaderRoundTrip(c)
    \/ \E c \in Clients : ClientBaseReturns(c)
    \/ \E c \in Clients : ClientBackoff(c)
    \/ \E c \in Clients : ClientCancel(c)

SpecClients == InitClients /\ [][NextClients]_vars

\* every request the base transport was handed is the client's request with
\* the headers of the client that issued it added, and carries the account
\* of no other client
HeadersOfIssuer ==
    \A e \in received :
        /\ \E order \in KeyOrders(trips[e.client].headers) :
              e.Header = AddHeaders(ClientRequest.Header, trips[e.client].headers, order)
        /\ \A k \in DOMAIN e.Header :
              /\ AccountId(e.client) \in Range(e.Header[k]) <=> k = XA
              /\ \A o \in Clients \ {e.client} : AccountId(o) \notin Range(e.Header[k])

\* a step changes the RoundTrip of one client at most
OneTripPerStep ==
    \A c1, c2 \in Clients :
        c1 # c2 => (trips'[c1] = trips[c1] \/ trips'[c2] = trips[c2])

\* C19: when several clients made by NewGraphQLClient with different header
\* sets have requests in progress at once (retries included), every request
\* that reaches the base transport carries the headers of the client that
\* issued it and none of another client's, and no step of one RoundTrip
\* changes the attempt counter or the last error of another.
C19_ClientIsolation == [](HeadersOfIssuer) /\ [][OneTripPerStep]_vars

\* two clients each have a retry in flight at the base transport
C19_Witness ==
    /\ \A c \in {1, 2} :
          /\ trips[c].pc = "inflight"
          /\ trips[c].attempt >= 1
          /\ trips[c].lastErr = ErrDialRefused
    /\ trips[1].attempt # trips[2].attempt
    /\ Cardinality(received) = 2

----------------------------------------------------------------------------
(* The result of retryTransport.RoundTrip *)

\* C21: for every retry count N (zero and negative ones included) and
\* whatever the wrapped transport does, RoundTrip returns either a response
\* or an error: never a nil response with a nil error, never both; and an
\* error that is not the error of GetBody is returned only after at least
\* one send.
C21_ResultWellFormed ==
    pc = "done" =>
        /\ (result.resp # NilResp) # (result.err # NilErr)
        /\ (result.err # NilErr /\ result.err # ErrGetBody) =>
              \E i \in DOMAIN log : IsSend(log[i])

====
